---- MODULE Spec2Model ----
(***************************************************************************)
(* Model of floq's memoizing parametric system (parametric_system.py) and  *)
(* of the fidelity computers built on it (fidelity.py), and of the matrix  *)
(* helpers is_unitary and gram_schmidt (helpers/matrix.py).                *)
(*                                                                         *)
(* Every call is synchronous and single-threaded, so each public method is *)
(* one atomic action.  The caller owns one working control array x, which  *)
(* it may pass by reference and overwrite in place, and it may pass fresh  *)
(* objects (an ndarray or a plain list) that nobody else refers to.        *)
(***************************************************************************)
EXTENDS Integers, Sequences, FiniteSets, TLC

\* ---------------------------------------------------------------- bounds
MaxNz == 2       \* mode-truncation counts are 1..MaxNz
MaxIter == 2     \* iterate is called while the counter is below MaxIter
MaxVecs == 3     \* gram_schmidt is given 1..MaxVecs vectors

\* ---------------------------------------------------------- value domains
\* The numbers the caller uses: two amplitudes per control entry and two
\* durations, all finite (no NaN), so that equal and unequal inputs both occur.
None == 0                       \* Python's None, where a number is expected
Entries == {0, 1}
Durations == {1, 2}
NzRange == 1..MaxNz
CtrlIdx == {1, 2}               \* positions of a control vector
Controls == [CtrlIdx -> Entries]
ZeroCtrl == [i \in CtrlIdx |-> 0]

SysIds == {1, 2}                \* the parametric system objects

\* an argument passed as `controls`: the caller's array x by reference, or a
\* fresh ndarray / list holding val
Arg(ref, nd, val) == [ref |-> ref, nd |-> nd, val |-> val]
Args(xval) ==
    {Arg(TRUE, TRUE, xval)} \cup {Arg(FALSE, nd, v) : nd \in BOOLEAN, v \in Controls}

\* what self._last_controls refers to
NoKey == [tag |-> "None", val |-> ZeroCtrl]
KeyX == [tag |-> "x", val |-> ZeroCtrl]
KeyTmp(v) == [tag |-> "tmp", val |-> v]
KeyOf(a) == IF a.ref THEN KeyX ELSE KeyTmp(a.val)

\* self._fixed_system: absent, or the solve of hf(c), dhf(c) at duration t
NoFs == [set |-> FALSE, c |-> ZeroCtrl, t |-> None]
Fs(c, t) == [set |-> TRUE, c |-> c, t |-> t]

\* where a miss may raise: in the hook _hf, in the hook _dhf, in the solver
FailPoints == {"none", "hf", "dhf", "solve"}

\* the fidelity objects: the ensemble fidelity and its member metrics
FidIds == {"ens", "m1", "m2"}
Member(k) == IF k = 1 THEN "m1" ELSE "m2"

VARIABLES
    x,           \* current content of the caller's working array
    sys,         \* the parametric system objects
    ev,          \* the last u/du call on system 1, as the caller observed it
    cfg,         \* how the fidelity objects were constructed
    iterations,  \* self.iterations of every fidelity object
    fev,         \* the last call on a fidelity object, as the caller observed it
    run,         \* a fixed call sequence in progress: position, arguments, solves
    la           \* the last call of a matrix helper: arguments and outcome

vars == <<x, sys, ev, cfg, iterations, fev, run, la>>

\* no call sequence in progress, no matrix helper called
NoRun == [pc |-> "none"]
NoLa == [op |-> "none"]

\* ------------------------------------------------------- ParametricSystem
\* ParametricSystemBase.__init__: both key attributes exist and are None.
\* ParametricSystemWithFunctions.__init__ sets hf, dhf, omega, nz and
\* parameters only, and never runs the base __init__ (attrs = FALSE).
NewSystem(attrs, nz0) ==
    [has_attrs |-> attrs, last_controls |-> NoKey, last_t |-> None,
     fixed_system |-> NoFs, nz |-> nz0]

\* (mutant) a comparison with a tolerance, as np.allclose would make
ArrayClose(v, w) == \A i \in CtrlIdx : v[i] - w[i] \in {-1, 0, 1}

\* np.array_equal on two arrays of the same shape: every entry equal
ArrayEqual(v, w) == \A i \in CtrlIdx : v[i] = w[i]

\* Python's `self._last_t != t`
TimeNe(lt, t) == lt = None \/ lt # t

\* the array self._last_controls holds now
KeyVal(st, xval) == IF st.last_controls.tag = "x" THEN xval ELSE st.last_controls.val

\* (mutant) a cache that never hits
IsCachedNever(st, a, t, xval) == FALSE

IsCached(st, a, t, xval) ==
    IF ~a.nd THEN FALSE
    ELSE IF TimeNe(st.last_t, t) THEN FALSE
    ELSE st.last_controls.tag # "None" /\ ArrayEqual(KeyVal(st, xval), a.val)

\* what _set_cached hands to FixedSystem(hf, dhf, self.nz, self.omega, t)
SolverArgs(st, a, t) == [c |-> a.val, nz |-> st.nz, t |-> t]

\* (mutant) _set_cached that forgets to store the duration
SetCachedKeepsT(st, a, t, fail) ==
    [st EXCEPT !.has_attrs = TRUE,
               !.last_controls = KeyOf(a),
               !.fixed_system =
                   IF fail = "none"
                   THEN Fs(SolverArgs(st, a, t).c, SolverArgs(st, a, t).t)
                   ELSE @]

\* (mutant) _set_cached that stores the key and leaves the old solve in place
SetCachedKeepsFs(st, a, t, fail) ==
    [st EXCEPT !.has_attrs = TRUE, !.last_controls = KeyOf(a), !.last_t = t]

\* _set_cached up to the point where it raises (fail) or returns
SetCached(st, a, t, fail) ==
    [st EXCEPT !.has_attrs = TRUE,
               !.last_controls = KeyOf(a),
               !.last_t = t,
               !.fixed_system =
                   IF fail = "none"
                   THEN Fs(SolverArgs(st, a, t).c, SolverArgs(st, a, t).t)
                   ELSE @]

\* (mutant) only u copies the solver's count
UpdateNzInUOnly(st, op, nzOut) == IF op = "u" THEN [st EXCEPT !.nz = nzOut] ELSE st

\* `self.nz = self._fixed_system.params.nz` after a miss, in u and in du
UpdateNz(st, op, nzOut) == [st EXCEPT !.nz = nzOut]

\* the value of self._fixed_system.u / .du
Value(op, fs) == [of |-> op, c |-> fs.c, t |-> fs.t]
NoValue == [of |-> "None", c |-> ZeroCtrl, t |-> None]

Result(st, hit, out, ret, fail, nzIn, nzOut) ==
    [st |-> st, hit |-> hit, out |-> out, ret |-> ret, fail |-> fail,
     nzIn |-> nzIn, nzOut |-> nzOut]

\* one call of u or du: the object's next state and what the caller sees
SysCall(st, op, a, t, xval, fail, nzOut) ==
    IF a.nd /\ ~st.has_attrs
    THEN Result(st, FALSE, "AttributeError", NoValue, "none", None, None)
    ELSE IF IsCached(st, a, t, xval)
    THEN IF st.fixed_system.set
         THEN Result(st, TRUE, "ret", Value(op, st.fixed_system), "none", None, None)
         ELSE Result(st, TRUE, "AttributeError", NoValue, "none", None, None)
    ELSE LET st1 == SetCached(st, a, t, fail) IN
         IF fail # "none"
         THEN Result(st1, FALSE, "raise", NoValue, fail,
                     IF fail = "solve" THEN SolverArgs(st, a, t).nz ELSE None, None)
         ELSE Result(UpdateNz(st1, op, nzOut), FALSE, "ret",
                     Value(op, st1.fixed_system), "none",
                     SolverArgs(st, a, t).nz, nzOut)

\* hook and solver invocations of a call
HfCalls(r) == IF r.out = "AttributeError" \/ r.hit THEN 0 ELSE 1
DhfCalls(r) == IF r.out = "AttributeError" \/ r.hit \/ r.fail = "hf" THEN 0 ELSE 1
Solves(r) ==
    IF r.out = "AttributeError" \/ r.hit \/ r.fail \in {"hf", "dhf"} THEN 0 ELSE 1
NoRecompute(r) == HfCalls(r) = 0 /\ DhfCalls(r) = 0 /\ Solves(r) = 0

\* the outcomes the hooks and the solver can produce for one call; with
\* cfg.steady the hooks and the solver succeed and the solver keeps nz
Outcomes(st, a, t, xval) ==
    IF (a.nd /\ ~st.has_attrs) \/ IsCached(st, a, t, xval)
    THEN {<<"none", 1>>}
    ELSE IF cfg.steady THEN {<<"none", st.nz>>}
    ELSE {<<f, 1>> : f \in FailPoints \ {"none"}} \cup {<<"none", n>> : n \in NzRange}

\* ------------------------------------------------------------------ events
\* What the caller observed.  val, t: the (controls, duration) of the last
\* call, by value at call time; mut: x was overwritten since that call.
\* cur describes the call itself and is present right after it, while x and
\* the system are still as the call left them:
\*   first: no call came before it;  same: the call before it had the same
\*   (controls, duration);  clean: x was not overwritten between the two;
\*   nzWas: self.nz when the call started.
NoCur ==
    [op |-> "none", nd |-> FALSE, first |-> FALSE, same |-> FALSE, clean |-> FALSE,
     nzWas |-> None, hit |-> FALSE, out |-> "none", ret |-> NoValue,
     fail |-> "none", nzIn |-> None, nzOut |-> None]

NoEv == [called |-> FALSE, val |-> ZeroCtrl, t |-> None, mut |-> FALSE, cur |-> NoCur]

Observed(e, st, op, a, t, r) ==
    [called |-> TRUE, val |-> a.val, t |-> t, mut |-> FALSE,
     cur |-> [op |-> op, nd |-> a.nd,
              first |-> ~e.called,
              same |-> e.called /\ e.val = a.val /\ e.t = t,
              clean |-> e.called /\ ~e.mut,
              nzWas |-> st.nz,
              hit |-> r.hit, out |-> r.out, ret |-> r.ret, fail |-> r.fail,
              nzIn |-> r.nzIn, nzOut |-> r.nzOut]]

\* ---------------------------------------------------------------- numbers
\* Fidelities are exact quotients num / den (np.mean divides a sum by a count).
Rat(n) == [num |-> n, den |-> 1]
RatAdd(p, q) == [num |-> p.num * q.den + q.num * p.den, den |-> p.den * q.den]
RatEq(p, q) == p.num * q.den = q.num * p.den

RECURSIVE SumSeq(_)
SumSeq(sq) == IF sq = <<>> THEN 0 ELSE Head(sq) + SumSeq(Tail(sq))

\* (mutant) the sum, not divided
MeanUndivided(sq) == [num |-> SumSeq(sq), den |-> 1]

\* np.mean of a list of numbers: their sum divided by their count
Mean(sq) == [num |-> SumSeq(sq), den |-> Len(sq)]

\* np.mean(list of gradients, axis=0): the mean of every component
MeanAxis0(sq) == [i \in CtrlIdx |-> Mean([k \in 1..Len(sq) |-> sq[k][i]])]

ZeroGrad == [i \in CtrlIdx |-> Rat(0)]

\* ------------------------------------------------------- distance metrics
\* operator_distance(u, target) and d_operator_distance(u, du, target) for the
\* propagator of system s: one number per (system, controls, duration), and
\* one gradient component per control.
Code(c) == c[1] + Cardinality(Entries) * c[2]
Dist(s, u) == (s * 10 + u.t) * 10 + Code(u.c)
DDist(s, u, du) == [i \in CtrlIdx |-> (Dist(s, u) * 1000 + Dist(s, du)) * 10 + i]

\* ------------------------------------------------------------ FidelityBase
\* penalty / d_penalty: 0.0 unless a subclass overrides them (cfg.pen)
UserPenalty(c) == 1 + c[1] + c[2]
Penalty(pen, c) == IF pen THEN UserPenalty(c) ELSE 0
DPenalty(pen, c) == [i \in CtrlIdx |-> IF pen THEN 1 + c[i] ELSE 0]

\* (mutant) f without the penalty term
BaseFCoreOnly(core, penalty) == core

\* FidelityBase.f and FidelityBase.df
BaseF(core, penalty) == RatAdd(core, Rat(penalty))
BaseDf(core, dpenalty) == [i \in CtrlIdx |-> RatAdd(core[i], Rat(dpenalty[i]))]

\* (mutant) iterate counts only the calls whose f returned
IterationsCountReturned(n, fout) == IF fout = "ret" THEN n + 1 ELSE n

\* FidelityBase.iterate: the counter after the call, whose f ended in fout
IterationsAfterIterate(n, fout) == n + 1

\* (mutant) one counter shared by every fidelity object
IterateShared(its, who, fout) ==
    [f \in FidIds |-> IterationsAfterIterate(its[who], fout)]

\* `self.iterations` is an attribute of the object iterate is called on
Iterate(its, who, fout) == [its EXCEPT ![who] = IterationsAfterIterate(@, fout)]

\* FidelityBase.reset_iterations
IterationsAfterReset(n) == 0

\* -------------------------------------------------------- OperatorDistance
\* the outcomes of the one or two system calls a member's f / df makes
MemberOutcomes(st, op, a, t, xval) ==
    IF op = "f" THEN {<<o1, o1>> : o1 \in Outcomes(st, a, t, xval)}
    ELSE UNION {
        LET r1 == SysCall(st, "u", a, t, xval, o1[1], o1[2]) IN
        IF r1.out = "ret"
        THEN {<<o1, o2>> : o2 \in Outcomes(r1.st, a, t, xval)}
        ELSE {<<o1, o1>>}
        : o1 \in Outcomes(st, a, t, xval) }

MemberResult(st, out, fval, gval, solves) ==
    [st |-> st, out |-> out, fval |-> fval, gval |-> gval, solves |-> solves]

\* (mutant) f through the base contract: the distance plus penalty(controls)
OdFWithPenalty(s, u, c) == Dist(s, u) + Penalty(cfg.pen, c)

\* the return statements of OperatorDistance.f and OperatorDistance.df
OdF(s, u, c) == Dist(s, u)
OdDf(s, u, du, c) == DDist(s, u, du)

\* OperatorDistance.f / OperatorDistance.df on system s in state st
MemberEval(st, s, op, a, t, xval, m) ==
    LET r1 == SysCall(st, "u", a, t, xval, m[1][1], m[1][2]) IN
    IF r1.out # "ret"
    THEN MemberResult(r1.st, r1.out, 0, [i \in CtrlIdx |-> 0], Solves(r1))
    ELSE IF op = "f"
    THEN MemberResult(r1.st, "ret", OdF(s, r1.ret, a.val), [i \in CtrlIdx |-> 0],
                      Solves(r1))
    ELSE LET r2 == SysCall(r1.st, "du", a, t, xval, m[2][1], m[2][2]) IN
         IF r2.out # "ret"
         THEN MemberResult(r2.st, r2.out, 0, [i \in CtrlIdx |-> 0],
                           Solves(r1) + Solves(r2))
         ELSE MemberResult(r2.st, "ret", 0, OdDf(s, r1.ret, r2.ret, a.val),
                           Solves(r1) + Solves(r2))

\* -------------------------------------------------------- EnsembleFidelity
\* EnsembleFidelity.__init__: one metric per entry of ensemble.systems
NMembers == Len(cfg.systems)
SystemOf(k) == cfg.systems[k]

\* the outcomes of the members' calls, member after member; the list
\* comprehension stops at the first member that raises
RECURSIVE EnsOutcomes(_, _, _, _, _)
EnsOutcomes(k, sf, op, a, xval) ==
    IF k > NMembers THEN {<<>>}
    ELSE UNION {
        LET r == MemberEval(sf[SystemOf(k)], SystemOf(k), op, a, cfg.t, xval, m) IN
        IF r.out # "ret" THEN {<<m>>}
        ELSE {<<m>> \o rest :
                rest \in EnsOutcomes(k + 1, [sf EXCEPT ![SystemOf(k)] = r.st],
                                     op, a, xval)}
        : m \in MemberOutcomes(sf[SystemOf(k)], op, a, cfg.t, xval) }

\* [fid.f(x) for fid in self.fidelities] (or fid.df): the systems afterwards,
\* the values collected, the members evaluated in order
RECURSIVE EnsEval(_, _, _, _, _, _, _)
EnsEval(k, sf, op, a, xval, ms, acc) ==
    IF k > NMembers THEN [acc EXCEPT !.sf = sf]
    ELSE LET r == MemberEval(sf[SystemOf(k)], SystemOf(k), op, a, cfg.t, xval, ms[k])
             sf1 == [sf EXCEPT ![SystemOf(k)] = r.st]
             acc1 == [acc EXCEPT !.order = Append(@, k),
                                 !.solves = @ + r.solves,
                                 !.out = r.out] IN
         IF r.out # "ret" THEN [acc1 EXCEPT !.sf = sf1]
         ELSE EnsEval(k + 1, sf1, op, a, xval, ms,
                      [acc1 EXCEPT !.fvals = Append(@, r.fval),
                                   !.gvals = Append(@, r.gval)])

EnsStart(sf) ==
    [sf |-> sf, out |-> "ret", fvals |-> <<>>, gvals |-> <<>>, order |-> <<>>,
     solves |-> 0]

\* EnsembleFidelity._f and ._df from the collected values
EnsCoreF(e) == Mean(e.fvals)
EnsCoreDf(e) == MeanAxis0(e.gvals)

\* ---------------------------------------------------------- fidelity events
\* What the caller of a fidelity object observed.  cur describes the call and
\* is present right after it:
\*   core, pen: the values of _f and penalty (of _df and d_penalty: gcore,
\*   gpen) the call added up;  itsWas: every counter when the call started;
\*   othersWas: the systems of the other members when the call started.
\* cfg.t, cfg.systems, cfg.pen: the metric's duration, ensemble.systems, and
\* whether the fidelity class overrides penalty / d_penalty;  cfg.fresh: the
\* caller passes only fresh ndarrays to the fidelity objects;  cfg.steady:
\* the Hamiltonian functions and the solver never fail
NoCfg == [t |-> 1, systems |-> <<1>>, pen |-> FALSE, fresh |-> FALSE,
          steady |-> FALSE]

FArgs(xval) ==
    IF cfg.fresh THEN {Arg(FALSE, TRUE, v) : v \in Controls} ELSE Args(xval)

NoFcur ==
    [who |-> "none", op |-> "none", nd |-> FALSE, out |-> "none",
     fval |-> Rat(0), gval |-> ZeroGrad, core |-> Rat(0), pen |-> 0,
     gcore |-> ZeroGrad, gpen |-> [i \in CtrlIdx |-> 0],
     order |-> <<>>, solves |-> 0,
     itsWas |-> [f \in FidIds |-> 0], othersWas |-> <<>>]

NoFev == [called |-> FALSE, val |-> ZeroCtrl, mut |-> FALSE, cur |-> NoFcur]

FObserved(who, op, a, cur) ==
    [called |-> TRUE, val |-> a.val, mut |-> FALSE,
     cur |-> [cur EXCEPT !.who = who, !.op = op, !.nd = a.nd,
                         !.itsWas = iterations]]

\* ----------------------------------------------------------------- actions
\* system 1 is of either class; the constructor was given nz = 1
InitSystems ==
    \E attrs \in BOOLEAN :
        sys = [s \in SysIds |-> IF s = 1 THEN NewSystem(attrs, 1)
                                         ELSE NewSystem(TRUE, 1)]

Init ==
    /\ x = ZeroCtrl
    /\ InitSystems
    /\ ev = NoEv
    /\ cfg = NoCfg
    /\ iterations = [f \in FidIds |-> 0]
    /\ fev = NoFev
    /\ run = NoRun
    /\ la = NoLa

\* the caller overwrites one entry of its working array in place
Mutate ==
    /\ \E i \in CtrlIdx, v \in Entries :
          /\ x[i] # v
          /\ x' = [x EXCEPT ![i] = v]
    /\ ev' = [ev EXCEPT !.mut = TRUE, !.cur = NoCur]
    /\ UNCHANGED <<run, la, sys, cfg, iterations, fev>>

Call(op) ==
    \E a \in Args(x), t \in Durations :
      \E o \in Outcomes(sys[1], a, t, x) :
        \E r \in {SysCall(sys[1], op, a, t, x, o[1], o[2])} :
        /\ sys' = [sys EXCEPT ![1] = r.st]
        /\ ev' = Observed(ev, sys[1], op, a, t, r)
        /\ UNCHANGED <<run, la, x, cfg, iterations, fev>>

U == Call("u")

Du == Call("du")

Next == Mutate \/ U \/ Du

Spec == Init /\ [][Next]_vars

\* ------------------------------------------------- fidelity-level actions
\* the caller overwrites one entry of its working array in place
MutateF ==
    /\ \E i \in CtrlIdx, v \in Entries :
          /\ x[i] # v
          /\ x' = [x EXCEPT ![i] = v]
    /\ fev' = [fev EXCEPT !.mut = TRUE, !.cur = NoFcur]
    /\ UNCHANGED <<run, la, sys, ev, cfg, iterations>>

OthersWas(k) == [j \in 1..NMembers |-> IF j = k THEN NewSystem(TRUE, 1)
                                                ELSE sys[SystemOf(j)]]

MemberCur(k, r) ==
    [NoFcur EXCEPT !.out = r.out, !.fval = Rat(r.fval),
                   !.gval = [i \in CtrlIdx |-> Rat(r.gval[i])],
                   !.order = <<k>>, !.solves = r.solves,
                   !.othersWas = OthersWas(k)]

\* OperatorDistance.f(controls) / .df(controls) on member k
MemberCall(k, op) ==
    \E a \in FArgs(x) :
      \E m \in MemberOutcomes(sys[SystemOf(k)], op, a, cfg.t, x) :
        \E r \in {MemberEval(sys[SystemOf(k)], SystemOf(k), op, a, cfg.t, x, m)} :
        /\ sys' = [sys EXCEPT ![SystemOf(k)] = r.st]
        /\ fev' = FObserved(Member(k), op, a, MemberCur(k, r))
        /\ UNCHANGED <<run, la, x, ev, cfg, iterations>>

\* FidelityBase.iterate(controls) on member k: count, _iterate, then self.f
MemberIterate(k) ==
    /\ iterations[Member(k)] < MaxIter
    /\ \E a \in FArgs(x) :
        \E m \in MemberOutcomes(sys[SystemOf(k)], "f", a, cfg.t, x) :
          \E r \in {MemberEval(sys[SystemOf(k)], SystemOf(k), "f", a, cfg.t, x, m)} :
          /\ iterations' = Iterate(iterations, Member(k), r.out)
          /\ sys' = [sys EXCEPT ![SystemOf(k)] = r.st]
          /\ fev' = FObserved(Member(k), "iterate", a,
                              [MemberCur(k, r) EXCEPT !.fval = Rat(0)])
          /\ UNCHANGED <<run, la, x, ev, cfg>>

\* FidelityBase.reset_iterations() on member k
MemberReset(k) ==
    /\ iterations' = [iterations EXCEPT ![Member(k)] = IterationsAfterReset(@)]
    /\ fev' = [fev EXCEPT !.mut = FALSE,
                          !.cur = [NoFcur EXCEPT !.who = Member(k), !.op = "reset",
                                                 !.itsWas = iterations]]
    /\ UNCHANGED <<run, la, x, sys, ev, cfg>>

\* one OperatorDistance, constructed with t = 1, over system 1, which is of
\* either system class; pen: its class overrides penalty and d_penalty
InitFid ==
    /\ x = ZeroCtrl
    /\ InitSystems
    /\ ev = NoEv
    /\ \E pen \in BOOLEAN :
          cfg = [NoCfg EXCEPT !.pen = pen]
    /\ iterations = [f \in FidIds |-> 0]
    /\ fev = NoFev
    /\ run = NoRun
    /\ la = NoLa

NextFid ==
    \/ MutateF
    \/ MemberCall(1, "f")
    \/ MemberCall(1, "df")
    \/ MemberIterate(1)
    \/ MemberReset(1)

SpecFid == InitFid /\ [][NextFid]_vars

\* --------------------------------------------------------- ensemble actions
EnsCur(op, a, e) ==
    LET base == [NoFcur EXCEPT !.out = e.out, !.order = e.order,
                               !.solves = e.solves] IN
    IF e.out # "ret" THEN base
    ELSE IF op = "f"
    THEN [base EXCEPT !.core = EnsCoreF(e),
                      !.pen = Penalty(cfg.pen, a.val),
                      !.fval = BaseF(EnsCoreF(e), Penalty(cfg.pen, a.val))]
    ELSE [base EXCEPT !.gcore = EnsCoreDf(e),
                      !.gpen = DPenalty(cfg.pen, a.val),
                      !.gval = BaseDf(EnsCoreDf(e), DPenalty(cfg.pen, a.val))]

\* EnsembleFidelity.f(controls) / .df(controls), inherited from FidelityBase
EnsCall(op) ==
    \E a \in FArgs(x) :
      \E ms \in EnsOutcomes(1, sys, op, a, x) :
        \E e \in {EnsEval(1, sys, op, a, x, ms, EnsStart(sys))} :
          /\ sys' = e.sf
          /\ fev' = FObserved("ens", op, a, EnsCur(op, a, e))
          /\ UNCHANGED <<run, la, x, ev, cfg, iterations>>

\* EnsembleFidelity.iterate(controls), inherited from FidelityBase
EnsIterate ==
    /\ iterations["ens"] < MaxIter
    /\ \E a \in FArgs(x) :
        \E ms \in EnsOutcomes(1, sys, "f", a, x) :
          \E e \in {EnsEval(1, sys, "f", a, x, ms, EnsStart(sys))} :
            /\ iterations' = Iterate(iterations, "ens", e.out)
            /\ sys' = e.sf
            /\ fev' = FObserved("ens", "iterate", a,
                                [NoFcur EXCEPT !.out = e.out, !.order = e.order,
                                               !.solves = e.solves])
            /\ UNCHANGED <<run, la, x, ev, cfg>>

\* EnsembleFidelity.reset_iterations(), inherited from FidelityBase
EnsReset ==
    /\ iterations' = [iterations EXCEPT !["ens"] = IterationsAfterReset(@)]
    /\ fev' = [fev EXCEPT !.mut = FALSE,
                          !.cur = [NoFcur EXCEPT !.who = "ens", !.op = "reset",
                                                 !.itsWas = iterations]]
    /\ UNCHANGED <<run, la, x, sys, ev, cfg>>

\* ensemble.systems as handed to EnsembleFidelity.__init__: one system, two
\* systems, or the same system object twice
Ensembles == {<<1>>, <<1, 2>>, <<1, 1>>}

InitEns ==
    /\ x = ZeroCtrl
    /\ sys = [s \in SysIds |-> NewSystem(TRUE, 1)]
    /\ ev = NoEv
    /\ \E systems \in Ensembles, pen \in BOOLEAN :
          cfg = [NoCfg EXCEPT !.systems = systems, !.pen = pen,
                              !.fresh = TRUE, !.steady = TRUE]
    /\ iterations = [f \in FidIds |-> 0]
    /\ fev = NoFev
    /\ run = NoRun
    /\ la = NoLa

NextEns ==
    \/ EnsCall("f")
    \/ EnsCall("df")
    \/ EnsIterate
    \/ EnsReset
    \/ \E k \in 1..NMembers : MemberCall(k, "f")
    \/ \E k \in 1..NMembers : MemberCall(k, "df")
    \/ \E k \in 1..NMembers : MemberIterate(k)
    \/ \E k \in 1..NMembers : MemberReset(k)

SpecEns == InitEns /\ [][NextEns]_vars

\* ----------------------------------------------- the call sequence A, B, A
\* a key: (controls, duration)
Keys == Controls \X Durations

\* how the caller hands over a controls value: its working array after
\* writing the value into it, a fresh ndarray, or a list
Modes == {"x", "ndarray", "list"}
ModeArg(mode, c) == Arg(mode = "x", mode # "list", c)

\* a new system of either class and two different keys A and B
InitABA ==
    /\ x = ZeroCtrl
    /\ InitSystems
    /\ ev = NoEv
    /\ cfg = NoCfg
    /\ iterations = [f \in FidIds |-> 0]
    /\ fev = NoFev
    /\ la = NoLa
    /\ \E A \in Keys, B \in Keys :
          /\ A # B
          /\ run = [pc |-> "A1", A |-> A, B |-> B, solves |-> <<>>, outs |-> <<>>]

AbaKey == IF run.pc = "B" THEN run.B ELSE run.A
AbaNext(pc) == IF pc = "A1" THEN "B" ELSE IF pc = "B" THEN "A2" ELSE "end"

\* the next call of the sequence, u or du, on system 1
AbaCall(op) ==
    /\ run.pc \in {"A1", "B", "A2"}
    /\ \E mode \in Modes :
        \E x1 \in {IF mode = "x" THEN AbaKey[1] ELSE x} :
          \E o \in Outcomes(sys[1], ModeArg(mode, AbaKey[1]), AbaKey[2], x1) :
            \E r \in {SysCall(sys[1], op, ModeArg(mode, AbaKey[1]), AbaKey[2], x1,
                              o[1], o[2])} :
              /\ x' = x1
              /\ sys' = [sys EXCEPT ![1] = r.st]
              /\ run' = [run EXCEPT !.pc = AbaNext(@),
                                    !.solves = Append(@, Solves(r)),
                                    !.outs = Append(@, r.out)]
              /\ UNCHANGED <<ev, cfg, iterations, fev, la>>

NextABA == AbaCall("u") \/ AbaCall("du")

SpecABA == InitABA /\ [][NextABA]_vars

\* ----------------------------------- the optimizer's f, df, iterate pattern
\* run.warm: the call made before the pattern, if any;  run.a: the ndarray
\* x of the pattern;  run.cached: _is_cached(x, t) held when the pattern
\* started;  run.solves, run.outs: solves and outcome of each pattern call
InitOpt ==
    /\ x = ZeroCtrl
    /\ InitSystems
    /\ ev = NoEv
    /\ cfg = NoCfg
    /\ iterations = [f \in FidIds |-> 0]
    /\ fev = NoFev
    /\ la = NoLa
    /\ run = [pc |-> "new", warm |-> [op |-> "none", nd |-> FALSE, solves |-> 0],
              a |-> Arg(FALSE, TRUE, ZeroCtrl), cached |-> FALSE,
              solves |-> <<>>, outs |-> <<>>]

\* one earlier f or df on the metric, with any controls
OptWarm(op) ==
    /\ run.pc = "new"
    /\ \E a \in Args(x) :
        \E m \in MemberOutcomes(sys[1], op, a, cfg.t, x) :
          \E r \in {MemberEval(sys[1], 1, op, a, cfg.t, x, m)} :
            /\ sys' = [sys EXCEPT ![1] = r.st]
            /\ run' = [run EXCEPT !.pc = "warm",
                                  !.warm = [op |-> op, nd |-> a.nd,
                                            solves |-> r.solves]]
            /\ UNCHANGED <<x, ev, cfg, iterations, fev, la>>

\* the caller overwrites one entry of its working array before the pattern
OptWrite ==
    /\ run.pc = "warm"
    /\ \E i \in CtrlIdx, v \in Entries :
          /\ x[i] # v
          /\ x' = [x EXCEPT ![i] = v]
    /\ run' = [run EXCEPT !.pc = "written"]
    /\ UNCHANGED <<sys, ev, cfg, iterations, fev, la>>

OptStep(pc, out) == IF out = "ret" THEN pc ELSE "aborted"

\* f(x) for an ndarray x: the caller's working array or a fresh one
OptF ==
    /\ run.pc \in {"new", "warm", "written"}
    /\ \E a \in {b \in Args(x) : b.nd} :
        \E m \in MemberOutcomes(sys[1], "f", a, cfg.t, x) :
          \E r \in {MemberEval(sys[1], 1, "f", a, cfg.t, x, m)} :
            /\ sys' = [sys EXCEPT ![1] = r.st]
            /\ run' = [run EXCEPT !.pc = OptStep("f", r.out), !.a = a,
                                  !.cached = IsCached(sys[1], a, cfg.t, x),
                                  !.solves = <<r.solves>>, !.outs = <<r.out>>]
            /\ UNCHANGED <<x, ev, cfg, iterations, fev, la>>

\* df(x) for the same x
OptDf ==
    /\ run.pc = "f"
    /\ \E m \in MemberOutcomes(sys[1], "df", run.a, cfg.t, x) :
        \E r \in {MemberEval(sys[1], 1, "df", run.a, cfg.t, x, m)} :
          /\ sys' = [sys EXCEPT ![1] = r.st]
          /\ run' = [run EXCEPT !.pc = OptStep("df", r.out),
                                !.solves = Append(@, r.solves),
                                !.outs = Append(@, r.out)]
          /\ UNCHANGED <<x, ev, cfg, iterations, fev, la>>

\* iterate(x) for the same x: count, then f(x)
OptIterate ==
    /\ run.pc = "df"
    /\ \E m \in MemberOutcomes(sys[1], "f", run.a, cfg.t, x) :
        \E r \in {MemberEval(sys[1], 1, "f", run.a, cfg.t, x, m)} :
          /\ iterations' = Iterate(iterations, "m1", r.out)
          /\ sys' = [sys EXCEPT ![1] = r.st]
          /\ run' = [run EXCEPT !.pc = OptStep("done", r.out),
                                !.solves = Append(@, r.solves),
                                !.outs = Append(@, r.out)]
          /\ UNCHANGED <<x, ev, cfg, fev, la>>

NextOpt ==
    \/ OptWarm("f")
    \/ OptWarm("df")
    \/ OptWrite
    \/ OptF
    \/ OptDf
    \/ OptIterate

SpecOpt == InitOpt /\ [][NextOpt]_vars

\* ---------------------------------------------------------- matrix helpers
\* Complex numbers with integer parts.  The entries of a matrix handed to
\* is_unitary count thousandths; the entries of a product of two such
\* matrices, and the tolerance, count millionths.
Cx(re, im) == [re |-> re, im |-> im]
CxAdd(a, b) == Cx(a.re + b.re, a.im + b.im)
CxSub(a, b) == Cx(a.re - b.re, a.im - b.im)
CxMul(a, b) == Cx(a.re * b.re - a.im * b.im, a.re * b.im + a.im * b.re)
CxConj(a) == Cx(a.re, 0 - a.im)
CxScale(n, a) == Cx(n * a.re, n * a.im)
Abs(n) == IF n < 0 THEN 0 - n ELSE n

Dim == {1, 2}
UEntries == {Cx(0, 0), Cx(1, 0), Cx(1000, 0), Cx(1001, 0), Cx(0, 1000)}
Matrices == [Dim -> [Dim -> UEntries]]
Tolerances == {1990, 1995, 2001}

\* np.eye(u.shape[0]), in millionths
Eye == [i \in Dim |-> [j \in Dim |-> IF i = j THEN Cx(1000000, 0) ELSE Cx(0, 0)]]

\* umat.H and the matrix product
Adjoint(m) == [i \in Dim |-> [j \in Dim |-> CxConj(m[j][i])]]
MatMul(a, b) ==
    [i \in Dim |-> [j \in Dim |->
        CxAdd(CxMul(a[i][1], b[1][j]), CxMul(a[i][2], b[2][j]))]]

\* |z| <= bound, for a bound that is not negative
ModLe(z, bound) ==
    /\ Abs(z.re) <= bound
    /\ Abs(z.im) <= bound
    /\ z.re * z.re + z.im * z.im <= bound * bound

\* np.allclose(a, b, atol=tolerance) leaves rtol at its default 1e-5
RtolInv == 100000

\* one entry of np.allclose: |a - b| <= atol + rtol * |b|, b an identity entry
IsClose(a, b, atol) == ModLe(CxSub(a, b), atol + (Abs(b.re) \div RtolInv))

AllClose(p, q, atol) == \A i \in Dim, j \in Dim : IsClose(p[i][j], q[i][j], atol)

\* is_unitary(u, tolerance)
IsUnitary(u, tolerance) == AllClose(MatMul(Adjoint(u), u), Eye, tolerance)

\* the caller computes is_unitary(la.arg.u, la.arg.tolerance)
IsUnitaryCall ==
    /\ la.op = "none" /\ la.of = "is_unitary"
    /\ la' = [op |-> "is_unitary", u |-> la.arg.u, tolerance |-> la.arg.tolerance,
              ret |-> IsUnitary(la.arg.u, la.arg.tolerance)]
    /\ UNCHANGED <<x, sys, ev, cfg, iterations, fev, run>>

\* gram_schmidt works on rows q = num / den: num a vector with integer
\* parts, den a positive integer.  A row of the result is kept as the
\* residual q it was normalised from (result[j] = q / norm(q)), so that no
\* square root is taken.
VEntries == {Cx(0, 0), Cx(1, 0), Cx(0, 1), Cx(2, 0)}
Vectors == [Dim -> VEntries]
VecSeqs == UNION {[1..n -> Vectors] : n \in 1..MaxVecs}
Row(v) == [num |-> v, den |-> 1]

\* product(a, b) = np.conj(a).dot(b)
Product(a, b) == CxAdd(CxMul(CxConj(a[1]), b[1]), CxMul(CxConj(a[2]), b[2]))

\* norm(q) == 0.0: sqrt(<q|q>) is 0 exactly when every entry of q is 0
NormIsZero(q) == \A k \in Dim : q.num[k] = Cx(0, 0)

\* q - rij * result[i] with rij = product(result[i], q), result[i] = e / norm(e)
Project(q, e) ==
    [num |-> [k \in Dim |->
                CxSub(CxScale(Product(e.num, e.num).re, q.num[k]),
                      CxMul(Product(e.num, q.num), e.num[k]))],
     den |-> q.den * Product(e.num, e.num).re]

\* (mutant) the residual against the first row of the result only
ResidualFirstOnly(q, es, i) == IF es = <<>> THEN q ELSE Project(q, es[1])

\* the inner loop: subtract the projections on result[i], i < j, one by one
RECURSIVE Residual(_, _, _)
Residual(q, es, i) ==
    IF i > Len(es) THEN q ELSE Residual(Project(q, es[i]), es, i + 1)

GsRaise == [out |-> "ArithmeticError", result |-> <<>>]

\* the outer loop from row j on, res the rows of the result so far
RECURSIVE GsLoop(_, _, _)
GsLoop(vecs, j, res) ==
    IF j > Len(vecs) THEN [out |-> "ret", result |-> res]
    ELSE IF NormIsZero(Residual(Row(vecs[j]), res, 1)) THEN GsRaise
    ELSE GsLoop(vecs, j + 1, Append(res, Residual(Row(vecs[j]), res, 1)))

\* gram_schmidt(vecs)
GramSchmidt(vecs) ==
    IF NormIsZero(Row(vecs[1])) THEN GsRaise
    ELSE GsLoop(vecs, 2, <<Row(vecs[1])>>)

\* the caller computes gram_schmidt(la.arg.vecs)
GramSchmidtCall ==
    /\ la.op = "none" /\ la.of = "gram_schmidt"
    /\ \E r \in {GramSchmidt(la.arg.vecs)} :
          la' = [op |-> "gram_schmidt", vecs |-> la.arg.vecs, out |-> r.out,
                 result |-> r.result]
    /\ UNCHANGED <<x, sys, ev, cfg, iterations, fev, run>>

\* the arguments of one helper call, drawn from the bounded sets
InitMat ==
    /\ x = ZeroCtrl
    /\ sys = [s \in SysIds |-> NewSystem(TRUE, 1)]
    /\ ev = NoEv
    /\ cfg = NoCfg
    /\ iterations = [f \in FidIds |-> 0]
    /\ fev = NoFev
    /\ run = NoRun
    /\ \/ \E u \in Matrices, tolerance \in Tolerances :
             la = [op |-> "none", of |-> "is_unitary",
                   arg |-> [u |-> u, tolerance |-> tolerance]]
       \/ \E vecs \in VecSeqs :
             la = [op |-> "none", of |-> "gram_schmidt", arg |-> [vecs |-> vecs]]

NextMat == IsUnitaryCall \/ GramSchmidtCall

SpecMat == InitMat /\ [][NextMat]_vars

\* ------------------------------------------------------------------ claims
Called == ev.cur.op # "none"
\* the call ended in the AttributeError of a system without key attributes
NoAttrs == ev.cur.out = "AttributeError" /\ ~ev.cur.hit

C2_ChangedInputForcesSolve ==
    (Called /\ ~ev.cur.first /\ ~ev.cur.same /\ ~NoAttrs)
    => ~ev.cur.hit /\ HfCalls(ev.cur) = 1

\* C4: a miss that returns leaves nz at the count the solver reported, for u
\* and du alike, and the solver was started with the nz held before the call.
C4_NzFollowsSolver ==
    (Called /\ ~ev.cur.hit /\ ev.cur.out = "ret")
    => sys[1].nz = ev.cur.nzOut /\ ev.cur.nzIn = ev.cur.nzWas

C4_Witness ==
    /\ ev.cur.op = "du" /\ ~ev.cur.hit /\ ev.cur.out = "ret"
    /\ ev.cur.nzOut # ev.cur.nzWas /\ sys[1].nz = ev.cur.nzOut

\* C5: a call with controls that are no ndarray is a miss and invokes the
\* hooks, whatever the call before it was; a hit happens only for an ndarray
\* whose every entry equals the stored key's entry and whose duration equals
\* the stored duration.
C5_ExactMatchOnly ==
    Called
    => /\ ~ev.cur.nd => (~ev.cur.hit /\ HfCalls(ev.cur) = 1)
       /\ ev.cur.hit
            => /\ ev.cur.nd
               /\ sys[1].last_t = ev.t
               /\ sys[1].last_controls.tag # "None"
               /\ KeyVal(sys[1], x) = ev.val

C5_Witness ==
    /\ Called /\ ~ev.cur.nd /\ ev.cur.same /\ ev.cur.clean
    /\ ~ev.cur.hit /\ HfCalls(ev.cur) = 1 /\ ev.cur.out = "ret"

\* ------------------------------------------------- claims on fidelity objects
FCalled(ops) == fev.cur.op \in ops
FReturned(ops) == FCalled(ops) /\ fev.cur.out = "ret"

\* what f / df of a newly constructed copy of the metric (over a newly
\* constructed system, hooks and solver succeeding) returns for controls c
FreshEval(op, nd, c) ==
    MemberEval(NewSystem(TRUE, 1), 1, op, Arg(FALSE, nd, c), cfg.t, c,
               <<<<"none", 1>>, <<"none", 1>>>>)

\* C3 (as stated): the value f(x) / df(x) returns is the value a copy of the
\* metric without any prior call returns for the same x.
C3_SameAsFreshCopy ==
    /\ FReturned({"f"})
         => fev.cur.fval = Rat(FreshEval("f", fev.cur.nd, fev.val).fval)
    /\ FReturned({"df"})
         => \A i \in CtrlIdx :
              fev.cur.gval[i] = Rat(FreshEval("df", fev.cur.nd, fev.val).gval[i])

\* C6: one iterate raises the counter of its object by exactly 1, also when
\* the f inside it raises, and reset_iterations sets the counter to 0.
C6_IterateCountsOnce ==
    /\ FCalled({"iterate"})
         => iterations[fev.cur.who] = fev.cur.itsWas[fev.cur.who] + 1
    /\ FCalled({"reset"}) => iterations[fev.cur.who] = 0

C6_Witness ==
    /\ FCalled({"iterate"}) /\ fev.cur.out = "raise"
    /\ fev.cur.itsWas[fev.cur.who] = 1
    /\ iterations[fev.cur.who] = 2

C8_CorePlusPenalty ==
    /\ (FReturned({"f"}) /\ fev.cur.who = "ens")
         => /\ fev.cur.pen = Penalty(cfg.pen, fev.val)
            /\ RatEq(fev.cur.fval, RatAdd(fev.cur.core, Rat(fev.cur.pen)))
            /\ ~cfg.pen => (fev.cur.pen = 0 /\ RatEq(fev.cur.fval, fev.cur.core))
    /\ (FReturned({"df"}) /\ fev.cur.who = "ens")
         => \A i \in CtrlIdx :
              /\ fev.cur.gpen[i] = DPenalty(cfg.pen, fev.val)[i]
              /\ RatEq(fev.cur.gval[i],
                       RatAdd(fev.cur.gcore[i], Rat(fev.cur.gpen[i])))
              /\ ~cfg.pen => (fev.cur.gpen[i] = 0
                              /\ RatEq(fev.cur.gval[i], fev.cur.gcore[i]))

C8_Witness ==
    /\ FReturned({"f"}) /\ fev.cur.who = "ens"
    /\ cfg.pen /\ fev.cur.pen = 3 /\ NMembers = 2
    /\ ~RatEq(fev.cur.fval, fev.cur.core)

\* the members' f(x) and df(x) for the controls of the last call
MemberFs ==
    [k \in 1..NMembers |-> Dist(SystemOf(k), Value("u", Fs(fev.val, cfg.t)))]
MemberDfs(i) ==
    [k \in 1..NMembers |->
        DDist(SystemOf(k), Value("u", Fs(fev.val, cfg.t)),
              Value("du", Fs(fev.val, cfg.t)))[i]]

\* C9: _f of the ensemble is the sum of the members' f(x) divided by their
\* number n, and _df is, for each of the gradient's components, the sum of
\* the members' df(x) divided by n; the members are evaluated once each, in
\* order, none skipped.
C9_EnsembleMean ==
    (FReturned({"f", "df"}) /\ fev.cur.who = "ens")
    => /\ fev.cur.order = [k \in 1..NMembers |-> k]
       /\ fev.cur.op = "f"
            => fev.cur.core.num * NMembers = SumSeq(MemberFs) * fev.cur.core.den
       /\ fev.cur.op = "df"
            => /\ DOMAIN fev.cur.gcore = CtrlIdx
               /\ \A i \in CtrlIdx :
                    fev.cur.gcore[i].num * NMembers
                      = SumSeq(MemberDfs(i)) * fev.cur.gcore[i].den

C9_Witness ==
    /\ FReturned({"df"}) /\ fev.cur.who = "ens"
    /\ cfg.systems = <<1, 2>> /\ fev.cur.order = <<1, 2>>
    /\ fev.cur.gcore[1] # fev.cur.gcore[2]
    /\ fev.cur.gcore[1].den = 2

\* C10 (as stated): f or df on one member leaves the system state (cache
\* key, stored solve, nz) behind every other member as it was.
C10_OtherMembersUntouched ==
    (FCalled({"f", "df"}) /\ fev.cur.who # "ens")
    => \A j \in 1..NMembers :
         j # fev.cur.order[1] => sys[SystemOf(j)] = fev.cur.othersWas[j]

Missed == Called /\ ~ev.cur.hit /\ ~NoAttrs
\* the propagator / derivative a solve for the call's own arguments gives
FreshValue == [of |-> ev.cur.op, c |-> ev.val, t |-> ev.t]

C15_ReturnsFreshValue == (Called /\ ev.cur.out = "ret") => ev.cur.ret = FreshValue

\* C16 (as stated): the first call on a new system whose hooks and solver
\* succeed is a miss, makes one solve and returns its value.
C16_FirstCallSolves ==
    (Called /\ ev.cur.first /\ ev.cur.fail = "none")
    => /\ ~ev.cur.hit /\ Solves(ev.cur) = 1
       /\ ev.cur.out = "ret" /\ ev.cur.ret = FreshValue

\* C17 (as stated): for two different keys A and B, the calls A, B, A on one
\* instance, each returning, make three solves.
C17_ThreeSolves ==
    (run.pc = "end" /\ \A i \in 1..3 : run.outs[i] = "ret")
    => SumSeq(run.solves) = 3

\* C18 (as stated): f(x), df(x), iterate(x), each returning, make exactly
\* one solve in total; df on an ndarray makes at most one solve; the f inside
\* iterate makes none.
C18_ExactlyOneSolve ==
    /\ (run.pc = "warm" /\ run.warm.op = "df" /\ run.warm.nd) => run.warm.solves <= 1
    /\ run.pc = "done"
         => /\ SumSeq(run.solves) = 1
            /\ run.solves[2] <= 1
            /\ run.solves[3] = 0

\* C18 (amended): the pattern makes at most one solve in total, also when a
\* call of it raises; when all three calls return it makes exactly one solve
\* if x was no cache hit when the pattern started and none if it was; df on
\* an ndarray makes at most one solve; the f inside iterate makes none.
C18_AtMostOneSolve ==
    /\ (run.pc = "warm" /\ run.warm.op = "df" /\ run.warm.nd) => run.warm.solves <= 1
    /\ run.pc \in {"f", "df", "done", "aborted"} => SumSeq(run.solves) <= 1
    /\ run.pc = "done"
         => /\ SumSeq(run.solves) = (IF run.cached THEN 0 ELSE 1)
            /\ run.solves[2] <= 1
            /\ run.solves[3] = 0

C18_Witness ==
    /\ run.pc = "done" /\ ~run.cached /\ run.a.ref
    /\ run.warm.op = "df" /\ run.warm.nd /\ run.warm.solves = 1
    /\ run.solves = <<1, 0, 0>>
    /\ iterations["m1"] = 1

\* ------------------------------------------- claims on the matrix helpers
\* the product adjoint(U) * U of the last is_unitary call
LaProduct == MatMul(Adjoint(la.u), la.u)

\* C13 (as stated): is_unitary returns true exactly when every entry of
\* adjoint(U) * U is within tolerance of the identity's entry.
C13_WithinToleranceOnly ==
    la.op = "is_unitary"
    => (la.ret <=> \A i \in Dim, j \in Dim :
                      ModLe(CxSub(LaProduct[i][j], Eye[i][j]), la.tolerance))

\* determinant of the rows v, w; zero exactly when they are dependent
Det(v, w) == CxSub(CxMul(v[1], w[2]), CxMul(v[2], w[1]))
IsZeroVec(v) == \A k \in Dim : v[k] = Cx(0, 0)
\* v is a linear combination of the vectors ws (in two dimensions)
InSpan(v, ws) ==
    IF \E a \in DOMAIN ws, b \in DOMAIN ws : Det(ws[a], ws[b]) # Cx(0, 0) THEN TRUE
    ELSE IF \E a \in DOMAIN ws : ~IsZeroVec(ws[a])
    THEN \E a \in DOMAIN ws : ~IsZeroVec(ws[a]) /\ Det(ws[a], v) = Cx(0, 0)
    ELSE IsZeroVec(v)
Degenerate(vecs) ==
    \E j \in DOMAIN vecs :
        \/ IsZeroVec(vecs[j])
        \/ j > 1 /\ InSpan(vecs[j], SubSeq(vecs, 1, j - 1))

====
